---- MODULE Spec2Model ----
(***************************************************************************)
(* Provider-side storage deal handler of go-lotus:                         *)
(* chain/deals/handler_states.go.  The model covers the transition         *)
(* dispatcher (Handler.handle), the voucher validator (checkVoucher), the  *)
(* voucher redeemer (consumeVouchers) and the four phase handlers          *)
(* (accept, staged, sealing, complete).                                    *)
(*                                                                         *)
(* Three specifications share the variables:                               *)
(*   Spec        one deal driven through its phases by the owner loop      *)
(*   SpecCheck   checkVoucher applied to every voucher of a bounded set    *)
(*   SpecHandle  several concurrent handle() tasks with arbitrary          *)
(*               callbacks, racing with the owner loop and with stop       *)
(***************************************************************************)
EXTENDS Integers, Sequences, FiniteSets, TLC

VARIABLES
    deal,      \* the owner's deal record (MinerDeal)
    hcfg,      \* handler configuration: pricePerByteBlock
    task,      \* the phase task started by handle(): snapshot, position, locals
    calls,     \* every call made to an external collaborator, in order
    stop,      \* h.stop has been closed
    owner,     \* the owner loop: "running" or "exited"
    recv,      \* the updates the owner received from h.updated, in order
    tasks,     \* SpecHandle: the concurrent handle() tasks
    chk        \* SpecCheck: one application of checkVoucher

vars == <<deal, hcfg, task, calls, stop, owner, recv, tasks, chk>>

----------------------------------------------------------------------------
(* Bounds of the model *)

MaxVouchers == 2        \* longest voucher list of a proposal
MaxExtraDelta == 1      \* how far above minDelta the ledger's delta may lie
MaxTasks == 2           \* concurrent handle() tasks in SpecHandle

(* uint64 arithmetic is modelled with a reduced width: values wrap modulo  *)
(* UintMod exactly as they wrap modulo 2^64 in the code.                   *)
UintMod == 2 ^ 8

USub(a, b) == (a - b + UintMod) % UintMod
UAdd(a, b) == (a + b) % UintMod
UMul(a, b) == (a * b) % UintMod

----------------------------------------------------------------------------
(* Values *)

NoErr == "nil"          \* a nil error

\* api.DealState values used by the dispatcher and the phases
DealAccepted == "DealAccepted"
DealStaged   == "DealStaged"
DealSealing  == "DealSealing"
DealComplete == "DealComplete"
DealFailed   == "DealFailed"
DealNoUpdate == "DealNoUpdate"

SerializationUnixFs == "UnixFs"
SerializationRaw    == "Raw"

\* actors.MAMethods.PaymentVerifyInclusion and some other method number
PaymentVerifyInclusion == "PaymentVerifyInclusion"
OtherMethod            == "OtherMethod"

MinerAddr == "t0miner"
OtherAddr == "t0other"

CommPGood  == "commP"
CommPOther == "commP2"

\* build.DealVoucherSkewLimit, build.MinDealVoucherIncrement,
\* build.MaxVouchersPerDeal
DealVoucherSkewLimit == 2
MinDealVoucherIncrement == 2
MaxVouchersPerDeal == 3

Min(a, b) == IF a < b THEN a ELSE b
Max(a, b) == IF a > b THEN a ELSE b

----------------------------------------------------------------------------
(* Voucher extra data: cbor encoding of actors.PieceInclVoucherData.  The   *)
(* encoding is a byte string; a byte string that is not an encoding of the  *)
(* record does not decode.                                                  *)

EncodeChallenge(pieceSize, commP) == <<"PieceInclVoucherData", pieceSize, commP>>
GarbageData == <<"garbage">>

DecodeOK(data) == Len(data) = 3 /\ data[1] = "PieceInclVoucherData"
DecodePieceSize(data) == data[2]
DecodeCommP(data) == data[3]

\* *types.ModVerifyParams; a nil pointer is the empty sequence
NoExtra == <<>>
MkExtra(actor, method, data) == <<[Actor |-> actor, Method |-> method, Data |-> data]>>

----------------------------------------------------------------------------
(* Handler.checkVoucher *)

\* lines 51-74 with the challenge compared before the actor and the method
checkExtra_ChallengeFirst(proposal, voucher) ==
    IF voucher.Extra = NoExtra THEN "ErrExtraNotSet"
    ELSE IF ~DecodeOK(voucher.Extra[1].Data) THEN "ErrDecode"
    ELSE IF DecodePieceSize(voucher.Extra[1].Data) # proposal.Size THEN "ErrPieceSize"
    ELSE IF DecodeCommP(voucher.Extra[1].Data) # proposal.CommP THEN "ErrCommP"
    ELSE IF voucher.Extra[1].Actor # proposal.MinerAddress THEN "ErrExtraActor"
    ELSE IF voucher.Extra[1].Method # PaymentVerifyInclusion THEN "ErrExtraMethod"
    ELSE NoErr

\* The checks on voucher.Extra: present, actor, method, decodes, piece size,
\* CommP (in this order).
checkExtra(proposal, voucher) ==
    IF voucher.Extra = NoExtra THEN "ErrExtraNotSet"
    ELSE IF voucher.Extra[1].Actor # proposal.MinerAddress THEN "ErrExtraActor"
    ELSE IF voucher.Extra[1].Method # PaymentVerifyInclusion THEN "ErrExtraMethod"
    ELSE IF ~DecodeOK(voucher.Extra[1].Data) THEN "ErrDecode"
    ELSE IF DecodePieceSize(voucher.Extra[1].Data) # proposal.Size THEN "ErrPieceSize"
    ELSE IF DecodeCommP(voucher.Extra[1].Data) # proposal.CommP THEN "ErrCommP"
    ELSE NoErr

\* lines 76-94 without the lane check
checkTerms_NoLane(voucher, lane, maxClose, amount) ==
    IF voucher.MinCloseHeight > maxClose THEN "ErrMinCloseHeight"
    ELSE IF voucher.TimeLock > maxClose THEN "ErrTimeLock"
    ELSE IF Len(voucher.Merges) > 0 THEN "ErrMerges"
    ELSE IF voucher.Amount < amount THEN "ErrAmount"
    ELSE NoErr

\* The checks on the voucher's terms: MinCloseHeight, TimeLock, Merges,
\* Amount, Lane (in this order).
checkTerms(voucher, lane, maxClose, amount) ==
    IF voucher.MinCloseHeight > maxClose THEN "ErrMinCloseHeight"
    ELSE IF voucher.TimeLock > maxClose THEN "ErrTimeLock"
    ELSE IF Len(voucher.Merges) > 0 THEN "ErrMerges"
    ELSE IF voucher.Amount < amount THEN "ErrAmount"
    ELSE IF voucher.Lane # lane THEN "ErrLane"
    ELSE NoErr

\* lines 45-97 with line 88 rejecting an amount equal to the required one
checkVoucher_AmountStrict(proposal, voucher, valid, lane, maxClose, amount) ==
    IF ~valid THEN "ErrCheckValid"
    ELSE IF checkExtra(proposal, voucher) # NoErr THEN checkExtra(proposal, voucher)
    ELSE IF voucher.Amount = amount THEN "ErrAmount"
    ELSE checkTerms(voucher, lane, maxClose, amount)

\* valid: the answer of h.full.PaychVoucherCheckValid for this voucher.
checkVoucher(proposal, voucher, valid, lane, maxClose, amount) ==
    IF ~valid THEN "ErrCheckValid"
    ELSE IF checkExtra(proposal, voucher) # NoErr THEN checkExtra(proposal, voucher)
    ELSE checkTerms(voucher, lane, maxClose, amount)

----------------------------------------------------------------------------
(* The deal and its proposal *)

GoodExtra == MkExtra(MinerAddr, PaymentVerifyInclusion, EncodeChallenge(1, CommPGood))

\* Vouchers a client may send: well-formed ones on two lanes with several
\* time locks and amounts, and ones with a defect.
BaseVoucher ==
    [Lane |-> 0, TimeLock |-> 6, MinCloseHeight |-> 0, Merges |-> <<>>,
     Amount |-> 4, Extra |-> GoodExtra]

LifeVouchers ==
    [Lane : {0, 1}, TimeLock : {1, 6, 9}, MinCloseHeight : {0},
     Merges : {<<>>}, Amount : {2, 4}, Extra : {GoodExtra}]
    \cup {[BaseVoucher EXCEPT !.Extra = NoExtra],
          [BaseVoucher EXCEPT !.MinCloseHeight = 10],
          [BaseVoucher EXCEPT !.Extra =
              MkExtra(MinerAddr, PaymentVerifyInclusion, EncodeChallenge(1, CommPOther))]}

VoucherLists == UNION {[1..n -> LifeVouchers] : n \in 0..MaxVouchers}

\* StorageDealProposal.  ChannelMessage is a *cid.Cid: <<>> is nil.
Proposals ==
    [MinerAddress : {MinerAddr}, Size : {1}, CommP : {CommPGood},
     PieceRef : {"pieceRef"},
     Duration : {2, 4}, TotalPrice : {3, 4},
     SerializationMode : {SerializationUnixFs, SerializationRaw},
     ChannelMessage : {<<>>, <<"chmsg">>},
     Vouchers : VoucherLists]

DealUnknown == "DealUnknown"

\* MinerDeal
NewMinerDeal(proposal) ==
    [ProposalCid |-> "propcid", Proposal |-> proposal, Ref |-> "ref",
     SectorID |-> 0, State |-> DealUnknown]

\* A mutation returned by a phase: <<>> is the nil closure, <<id>> the
\* closure of staged, which sets SectorID.
NoMut == <<>>
SetSectorID(id) == <<id>>
\* lines 212-214 with the closure also resetting the data reference
ApplyMut_ResettingRef(mut, d) ==
    IF mut = NoMut THEN d ELSE [d EXCEPT !.SectorID = mut[1], !.Ref = ""]

ApplyMut(mut, d) == IF mut = NoMut THEN d ELSE [d EXCEPT !.SectorID = mut[1]]

\* One call to an external collaborator.
Call(op, phase, i, amt, proof, ok, delta, resp) ==
    [op |-> op, phase |-> phase, i |-> i, amt |-> amt, proof |-> proof,
     ok |-> ok, delta |-> delta, resp |-> resp]

NoProof == <<>>
NoResp == <<>>

----------------------------------------------------------------------------
(* deals.VoucherSpec: the redemption schedule of a deal.  The number of      *)
(* entries follows from the duration alone; entry i (from 1) requires the    *)
(* cumulative amount price * i / n.                                          *)

nVouchers(duration) ==
    Max(1, Min(duration \div MinDealVoucherIncrement, MaxVouchersPerDeal))

VoucherSpec(duration, price, start) ==
    [i \in 1..nVouchers(duration) |->
        [Amount |-> (price * i) \div nVouchers(duration)]]

----------------------------------------------------------------------------
(* The phase task.  pc is the statement the task is about to execute.        *)

Heights == {3}

IdleTask ==
    [phase |-> "none", pc |-> "idle", snap |-> <<>>, next |-> DealNoUpdate,
     i |-> 0, height |-> 0, increment |-> 0, vspec |-> <<>>, lane |-> 0,
     prevAmt |-> 0, status |-> <<>>, ip |-> <<>>, mcid |-> "",
     mut |-> NoMut, err |-> NoErr]

\* go func() { mut, err := cb(ctx, deal) ...: the task starts in its callback
StartTask(phase, d, next) ==
    [IdleTask EXCEPT !.phase = phase, !.pc = phase, !.snap = d, !.next = next]

\* the callback returns (mut, err)
Return(mut, err) == [task EXCEPT !.pc = "returned", !.mut = mut, !.err = err]

----------------------------------------------------------------------------
(* Handler.consumeVouchers, one action per call to a collaborator *)

\* lines 100-117 with the empty-list test returning nil instead of an error
consumeChainHead_EmptyListAccepted ==
    /\ task.pc = "ChainHead"
    /\ \E ok \in BOOLEAN, h \in Heights :
        LET vs == task.snap.Proposal.Vouchers
            increment == task.snap.Proposal.Duration \div Len(vs)
            startH == USub(vs[1].TimeLock, increment)
        IN  /\ calls' = Append(calls, Call("ChainHead", task.phase, 0, 0, NoProof, ok, 0, NoResp))
            /\ task' =
                 IF ~ok THEN Return(NoMut, "ErrChainHead")
                 ELSE IF Len(vs) = 0 THEN [task EXCEPT !.pc = "sendAccepted"]
                 ELSE IF startH > UAdd(h, DealVoucherSkewLimit)
                      THEN Return(NoMut, "ErrStartTooFar")
                 ELSE [task EXCEPT !.pc = "checkVoucher", !.i = 1, !.height = h,
                                   !.increment = increment,
                                   !.vspec = VoucherSpec(task.snap.Proposal.Duration,
                                                         task.snap.Proposal.TotalPrice,
                                                         startH),
                                   !.lane = vs[1].Lane]
    /\ UNCHANGED <<deal, hcfg, stop, owner, recv, tasks, chk>>

\* lines 100-117: ChainHead, the empty-list test, increment, startH and its
\* bound, the schedule and the lane
consumeChainHead ==
    /\ task.pc = "ChainHead"
    /\ \E ok \in BOOLEAN, h \in Heights :
        LET vs == task.snap.Proposal.Vouchers
            increment == task.snap.Proposal.Duration \div Len(vs)
            startH == USub(vs[1].TimeLock, increment)
        IN  /\ calls' = Append(calls, Call("ChainHead", task.phase, 0, 0, NoProof, ok, 0, NoResp))
            /\ task' =
                 IF ~ok THEN Return(NoMut, "ErrChainHead")
                 ELSE IF Len(vs) = 0 THEN Return(NoMut, "ErrNoVouchers")
                 ELSE IF startH > UAdd(h, DealVoucherSkewLimit)
                      THEN Return(NoMut, "ErrStartTooFar")
                 ELSE [task EXCEPT !.pc = "checkVoucher", !.i = 1, !.height = h,
                                   !.increment = increment,
                                   !.vspec = VoucherSpec(task.snap.Proposal.Duration,
                                                         task.snap.Proposal.TotalPrice,
                                                         startH),
                                   !.lane = vs[1].Lane]
    /\ UNCHANGED <<deal, hcfg, stop, owner, recv, tasks, chk>>

\* line 120
maxCloseAt(height, increment, i) ==
    UAdd(UAdd(height, UMul(increment, i)), DealVoucherSkewLimit)

\* lines 122-124 without the return: the result of checkVoucher is dropped
afterCheck_IgnoringErr(err, i, n) ==
    IF i = n THEN [task EXCEPT !.pc = "minPrice"] ELSE [task EXCEPT !.i = i + 1]

\* lines 122-125: a failed check ends consumeVouchers, a passed one moves to
\* the next voucher, and after the last one to the price floor
afterCheck(err, i, n) ==
    IF err # NoErr THEN Return(NoMut, err)
    ELSE IF i = n THEN [task EXCEPT !.pc = "minPrice"]
    ELSE [task EXCEPT !.i = i + 1]

\* lines 119-125: one iteration of the validation loop.  vspec[i] is
\* evaluated before the call: an index past the schedule panics.
consumeCheckVoucher ==
    /\ task.pc = "checkVoucher"
    /\ LET vs == task.snap.Proposal.Vouchers
           i == task.i
       IN  IF i > Len(task.vspec)
           THEN /\ task' = [task EXCEPT !.pc = "panicked"]
                /\ UNCHANGED calls
           ELSE \E valid \in BOOLEAN :
                LET err == checkVoucher(task.snap.Proposal, vs[i], valid, task.lane,
                                        maxCloseAt(task.height, task.increment, i),
                                        task.vspec[i].Amount)
                IN  /\ calls' = Append(calls, Call("checkVoucher", task.phase, i,
                                                   task.vspec[i].Amount, NoProof,
                                                   err = NoErr, 0, NoResp))
                    /\ task' = afterCheck(err, i, Len(vs))
    /\ UNCHANGED <<deal, hcfg, stop, owner, recv, tasks, chk>>

\* line 127 with the duration left out of the product
minPrice_WithoutDuration(pricePerByteBlock, proposal) ==
    pricePerByteBlock * proposal.Size

\* line 127
minPrice(pricePerByteBlock, proposal) ==
    (pricePerByteBlock * proposal.Size) * proposal.Duration

\* lines 127-132
consumeMinPrice ==
    /\ task.pc = "minPrice"
    /\ task' = IF minPrice(hcfg.pricePerByteBlock, task.snap.Proposal)
                    > task.snap.Proposal.TotalPrice
               THEN Return(NoMut, "ErrMinPrice")
               ELSE [task EXCEPT !.pc = "PaychVoucherAdd", !.i = 1, !.prevAmt = 0]
    /\ UNCHANGED <<deal, hcfg, calls, stop, owner, recv, tasks, chk>>

\* line 135 requesting the cumulative amount instead of the marginal one
requestedDelta_Cumulative(amount, prevAmt) == amount

\* line 135: the amount requested for voucher i
requestedDelta(amount, prevAmt) == amount - prevAmt

\* PaychVoucherAdd(channel, voucher, proof, minDelta): the deltas a
\* successful redemption may report
LedgerDeltas(minDelta) == Max(0, minDelta) .. (Max(0, minDelta) + MaxExtraDelta)

\* line 139 overwriting prevAmt with the last delta
addDelta_Overwrite(prevAmt, delta) == delta

\* line 139
addDelta(prevAmt, delta) == prevAmt + delta

\* line 134 redeeming the first voucher in every iteration
redeemedVoucher_First(i) == 1

\* line 134: iteration i redeems voucher i
redeemedVoucher(i) == i

\* lines 134-142 with a failed redemption logged and the loop going on
consumeRedeem_ContinuingOnErr ==
    /\ task.pc = "PaychVoucherAdd"
    /\ LET vs == task.snap.Proposal.Vouchers
           i == task.i
           req == requestedDelta(task.vspec[i].Amount, task.prevAmt)
       IN  \E ok \in BOOLEAN, delta \in LedgerDeltas(req) :
             /\ ok \/ delta = Max(0, req)
             /\ calls' = Append(calls, Call("PaychVoucherAdd", task.phase,
                                            redeemedVoucher(i), req, NoProof, ok, IF ok THEN delta ELSE 0, NoResp))
             /\ task' = IF i = Len(vs)
                        THEN [task EXCEPT !.pc = "sendAccepted",
                                          !.prevAmt = addDelta(task.prevAmt, IF ok THEN delta ELSE 0)]
                        ELSE [task EXCEPT !.i = i + 1,
                                          !.prevAmt = addDelta(task.prevAmt, IF ok THEN delta ELSE 0)]
    /\ UNCHANGED <<deal, hcfg, stop, owner, recv, tasks, chk>>

\* lines 134-142: one iteration of the redemption loop
consumeRedeem ==
    /\ task.pc = "PaychVoucherAdd"
    /\ LET vs == task.snap.Proposal.Vouchers
           i == task.i
           req == requestedDelta(task.vspec[i].Amount, task.prevAmt)
       IN  \E ok \in BOOLEAN, delta \in LedgerDeltas(req) :
             /\ ok \/ delta = Max(0, req)
             /\ calls' = Append(calls, Call("PaychVoucherAdd", task.phase,
                                            redeemedVoucher(i), req, NoProof, ok, IF ok THEN delta ELSE 0, NoResp))
             /\ task' = IF ~ok THEN Return(NoMut, "ErrVoucherAdd")
                        ELSE IF i = Len(vs)
                             THEN [task EXCEPT !.pc = "sendAccepted",
                                               !.prevAmt = addDelta(task.prevAmt, delta)]
                        ELSE [task EXCEPT !.i = i + 1,
                                          !.prevAmt = addDelta(task.prevAmt, delta)]
    /\ UNCHANGED <<deal, hcfg, stop, owner, recv, tasks, chk>>

----------------------------------------------------------------------------
(* Handler.accept *)

\* lines 146-152 with the commented-out case SerializationRaw enabled
SupportedSerialization_WithRaw(mode) ==
    mode \in {SerializationUnixFs, SerializationRaw}

\* lines 146-152: the modes the switch lets through
SupportedSerialization(mode) == mode = SerializationUnixFs

\* lines 146-159: the serialization switch and the ChannelMessage test
acceptStart ==
    /\ task.pc = "accept"
    /\ task' = IF ~SupportedSerialization(task.snap.Proposal.SerializationMode)
               THEN Return(NoMut, "ErrSerialization")
               ELSE IF task.snap.Proposal.ChannelMessage # <<>>
                    THEN [task EXCEPT !.pc = "StateWaitMsg"]
               ELSE [task EXCEPT !.pc = "ChainHead"]
    /\ UNCHANGED <<deal, hcfg, calls, stop, owner, recv, tasks, chk>>

\* lines 156-158
\* lines 154-159 with the error of StateWaitMsg logged instead of returned
acceptStateWaitMsg_IgnoringErr ==
    /\ task.pc = "StateWaitMsg"
    /\ \E ok \in BOOLEAN :
        /\ calls' = Append(calls, Call("StateWaitMsg", task.phase, 0, 0, NoProof, ok, 0, NoResp))
        /\ task' = [task EXCEPT !.pc = "ChainHead"]
    /\ UNCHANGED <<deal, hcfg, stop, owner, recv, tasks, chk>>

acceptStateWaitMsg ==
    /\ task.pc = "StateWaitMsg"
    /\ \E ok \in BOOLEAN :
        /\ calls' = Append(calls, Call("StateWaitMsg", task.phase, 0, 0, NoProof, ok, 0, NoResp))
        /\ task' = IF ok THEN [task EXCEPT !.pc = "ChainHead"]
                   ELSE Return(NoMut, "ErrWaitMsg")
    /\ UNCHANGED <<deal, hcfg, stop, owner, recv, tasks, chk>>

\* StorageDealResponse built without its Proposal field
Response_WithoutProposal(state, proposalCid, ip, commD, commitMsg) ==
    <<[State |-> state, Proposal |-> "", PieceInclusionProof |-> ip,
       CommD |-> commD, SectorCommitMessage |-> commitMsg]>>

\* StorageDealResponse
Response(state, proposalCid, ip, commD, commitMsg) ==
    <<[State |-> state, Proposal |-> proposalCid, PieceInclusionProof |-> ip,
       CommD |-> commD, SectorCommitMessage |-> commitMsg]>>

\* lines 165-173
acceptSendResponse ==
    /\ task.pc = "sendAccepted"
    /\ \E ok \in BOOLEAN :
        /\ calls' = Append(calls, Call("sendSignedResponse", task.phase, 0, 0, NoProof, ok, 0,
                                       Response(DealAccepted, task.snap.ProposalCid,
                                                <<>>, <<>>, <<>>)))
        /\ task' = IF ok THEN [task EXCEPT !.pc = "FetchGraph"]
                   ELSE Return(NoMut, "ErrSendResponse")
    /\ UNCHANGED <<deal, hcfg, stop, owner, recv, tasks, chk>>

\* line 175
acceptFetchGraph ==
    /\ task.pc = "FetchGraph"
    /\ \E ok \in BOOLEAN :
        /\ calls' = Append(calls, Call("FetchGraph", task.phase, 0, 0, NoProof, ok, 0, NoResp))
        /\ task' = Return(NoMut, IF ok THEN NoErr ELSE "ErrFetchGraph")
    /\ UNCHANGED <<deal, hcfg, stop, owner, recv, tasks, chk>>


----------------------------------------------------------------------------
(* Handler.staged *)

\* the sector AddUnixfsPiece packs the piece into
SectorIDs == {7}

\* lines 181-187 with the failed send returned instead of logged
stagedSendResponse_Fatal ==
    /\ task.pc = "staged"
    /\ \E ok \in BOOLEAN :
        /\ calls' = Append(calls, Call("sendSignedResponse", task.phase, 0, 0, NoProof, ok, 0,
                                       Response(DealStaged, task.snap.ProposalCid,
                                                <<>>, <<>>, <<>>)))
        /\ task' = IF ok THEN [task EXCEPT !.pc = "dagGet"]
                   ELSE Return(NoMut, "ErrSendResponse")
    /\ UNCHANGED <<deal, hcfg, stop, owner, recv, tasks, chk>>

\* lines 181-187: a failed send is logged and staging goes on
stagedSendResponse ==
    /\ task.pc = "staged"
    /\ \E ok \in BOOLEAN :
        calls' = Append(calls, Call("sendSignedResponse", task.phase, 0, 0, NoProof, ok, 0,
                                    Response(DealStaged, task.snap.ProposalCid,
                                             <<>>, <<>>, <<>>)))
    /\ task' = [task EXCEPT !.pc = "dagGet"]
    /\ UNCHANGED <<deal, hcfg, stop, owner, recv, tasks, chk>>

\* lines 189-192
stagedDagGet ==
    /\ task.pc = "dagGet"
    /\ \E ok \in BOOLEAN :
        /\ calls' = Append(calls, Call("dagGet", task.phase, 0, 0, NoProof, ok, 0, NoResp))
        /\ task' = IF ok THEN [task EXCEPT !.pc = "NewUnixfsFile"]
                   ELSE Return(NoMut, "ErrDagGet")
    /\ UNCHANGED <<deal, hcfg, stop, owner, recv, tasks, chk>>

\* lines 195-204: opening the node, and the node being a file
stagedNewUnixfsFile ==
    /\ task.pc = "NewUnixfsFile"
    /\ \E node \in {"error", "directory", "file"} :
        /\ calls' = Append(calls, Call("NewUnixfsFile", task.phase, 0, 0, NoProof,
                                       node # "error", 0, NoResp))
        /\ task' = IF node = "error" THEN Return(NoMut, "ErrOpenUnixfs")
                   ELSE IF node = "directory" THEN Return(NoMut, "ErrUnsupportedType")
                   ELSE [task EXCEPT !.pc = "AddUnixfsPiece"]
    /\ UNCHANGED <<deal, hcfg, stop, owner, recv, tasks, chk>>

\* lines 206-214
stagedAddUnixfsPiece ==
    /\ task.pc = "AddUnixfsPiece"
    /\ \E ok \in BOOLEAN, sectorID \in SectorIDs :
        /\ calls' = Append(calls, Call("AddUnixfsPiece", task.phase, 0, 0, NoProof, ok, 0, NoResp))
        /\ task' = IF ok THEN Return(SetSectorID(sectorID), NoErr)
                   ELSE Return(NoMut, "ErrAddPiece")
    /\ UNCHANGED <<deal, hcfg, stop, owner, recv, tasks, chk>>

----------------------------------------------------------------------------
(* Handler.sealing *)

\* sectorblocks.SerializationUnixfs0 + deal.Ref.String()
PieceKey(ref) == <<"unixfs0", ref>>

MyPiece == [Key |-> PieceKey("ref"), InclusionProof |-> "proofA"]
OtherPiece == [Key |-> PieceKey("other"), InclusionProof |-> "proofB"]

\* sectorbuilder.SectorSealingStatus values WaitSeal may return
SealStates == {"Sealed", "Failed", "Pending", "Sealing", "Unknown"}

SealStatuses ==
    [State : {"Sealed"}, CommD : {"commD"},
     Pieces : {<<>>, <<OtherPiece>>, <<MyPiece>>, <<OtherPiece, MyPiece>>}]
    \cup [State : SealStates \ {"Sealed"}, CommD : {"commD"}, Pieces : {<<MyPiece>>}]

\* getInclusionProof: the first piece with the key, <<>> when there is none
RECURSIVE findPiece(_, _, _)
findPiece(ref, pieces, i) ==
    IF i > Len(pieces) THEN <<>>
    ELSE IF pieces[i].Key = ref
         THEN <<[Position |-> i - 1, ProofElements |-> pieces[i].InclusionProof]>>
    ELSE findPiece(ref, pieces, i + 1)

getInclusionProof(ref, status) == findPiece(ref, status.Pieces, 1)

\* lines 236-249 with the Pending case falling through like Sealed
waitSealedErr_PendingOk(status) ==
    CASE status.State \in {"Sealed", "Pending"} -> NoErr
      [] status.State = "Failed"  -> "ErrSealFailed"
      [] status.State = "Sealing" -> "ErrSealWait"
      [] OTHER                    -> "ErrSealUnknown"

\* waitSealed: the error for a status WaitSeal returned without error
waitSealedErr(status) ==
    CASE status.State = "Sealed"  -> NoErr
      [] status.State = "Failed"  -> "ErrSealFailed"
      [] status.State = "Pending" -> "ErrSealPending"
      [] status.State = "Sealing" -> "ErrSealWait"
      [] OTHER                    -> "ErrSealUnknown"

\* lines 253-256, with waitSealed (lines 231-250)
sealingWaitSealed ==
    /\ task.pc = "sealing"
    /\ \E ok \in BOOLEAN, status \in SealStatuses :
        /\ ok \/ status = [State |-> "Failed", CommD |-> "commD", Pieces |-> <<MyPiece>>]
        /\ calls' = Append(calls, Call("WaitSeal", task.phase, 0, 0, NoProof, ok, 0,
                                       IF ok THEN <<status>> ELSE NoResp))
        /\ task' = IF ~ok THEN Return(NoMut, "ErrWaitSeal")
                   ELSE IF waitSealedErr(status) # NoErr
                        THEN Return(NoMut, waitSealedErr(status))
                   ELSE [task EXCEPT !.pc = "getInclusionProof", !.status = <<status>>]
    /\ UNCHANGED <<deal, hcfg, stop, owner, recv, tasks, chk>>

\* cbor.DumpObject(&actors.InclusionProof{Sector, Proof})
DumpInclusionProof(sector, elements) == <<"InclusionProof", sector, elements>>

\* lines 259-271
sealingGetInclusionProof ==
    /\ task.pc = "getInclusionProof"
    /\ LET ip == getInclusionProof(PieceKey(task.snap.Ref), task.status[1])
       IN  task' = IF ip = <<>> THEN Return(NoMut, "ErrProofNotFound")
                   ELSE [task EXCEPT !.ip = ip, !.i = 1,
                            !.pc = IF Len(task.snap.Proposal.Vouchers) = 0
                                   THEN "sendSealing" ELSE "storeProof"]
    /\ UNCHANGED <<deal, hcfg, calls, stop, owner, recv, tasks, chk>>

\* lines 274-281 with nil passed as the proof, as the call of line 135 does
sealingStoreProof_WithoutProof ==
    /\ task.pc = "storeProof"
    /\ LET vs == task.snap.Proposal.Vouchers
           i == task.i
           after == IF i = Len(vs) THEN [task EXCEPT !.pc = "sendSealing"]
                    ELSE [task EXCEPT !.i = i + 1]
       IN  IF vs[i].Extra = NoExtra
           THEN /\ task' = [task EXCEPT !.pc = "panicked"]
                /\ UNCHANGED calls
           ELSE IF vs[i].Extra[1].Method # PaymentVerifyInclusion
           THEN /\ task' = after
                /\ UNCHANGED calls
           ELSE \E ok \in BOOLEAN :
                /\ calls' = Append(calls,
                       Call("PaychVoucherAdd", task.phase, i, 0, NoProof, ok, 0, NoResp))
                /\ task' = IF ok THEN after ELSE Return(NoMut, "ErrStoreProof")
    /\ UNCHANGED <<deal, hcfg, stop, owner, recv, tasks, chk>>

\* lines 274-281: one iteration of the loop that stores the proof
sealingStoreProof ==
    /\ task.pc = "storeProof"
    /\ LET vs == task.snap.Proposal.Vouchers
           i == task.i
           after == IF i = Len(vs) THEN [task EXCEPT !.pc = "sendSealing"]
                    ELSE [task EXCEPT !.i = i + 1]
       IN  IF vs[i].Extra = NoExtra
           THEN /\ task' = [task EXCEPT !.pc = "panicked"]
                /\ UNCHANGED calls
           ELSE IF vs[i].Extra[1].Method # PaymentVerifyInclusion
           THEN /\ task' = after
                /\ UNCHANGED calls
           ELSE \E ok \in BOOLEAN :
                /\ calls' = Append(calls,
                       Call("PaychVoucherAdd", task.phase, i, 0,
                            DumpInclusionProof(task.snap.SectorID, task.ip[1].ProofElements),
                            ok, 0, NoResp))
                /\ task' = IF ok THEN after ELSE Return(NoMut, "ErrStoreProof")
    /\ UNCHANGED <<deal, hcfg, stop, owner, recv, tasks, chk>>

\* lines 283-293
sealingSendResponse ==
    /\ task.pc = "sendSealing"
    /\ \E ok \in BOOLEAN :
        calls' = Append(calls, Call("sendSignedResponse", task.phase, 0, 0, NoProof, ok, 0,
                                    Response(DealSealing, task.snap.ProposalCid, task.ip,
                                             <<task.status[1].CommD>>, <<>>)))
    /\ task' = Return(NoMut, NoErr)
    /\ UNCHANGED <<deal, hcfg, stop, owner, recv, tasks, chk>>

----------------------------------------------------------------------------
(* Handler.complete *)

ZeroCid == ""

\* lines 297-300 with the failed wait returned instead of logged
completeWaitCommit_Fatal ==
    /\ task.pc = "complete"
    /\ \E ok \in BOOLEAN :
        /\ calls' = Append(calls, Call("WaitCommit", task.phase, 0, 0, NoProof, ok, 0, NoResp))
        /\ task' = IF ok THEN [task EXCEPT !.pc = "sendComplete", !.mcid = "commitmsg"]
                   ELSE Return(NoMut, "ErrWaitCommit")
    /\ UNCHANGED <<deal, hcfg, stop, owner, recv, tasks, chk>>

\* lines 297-300: a failed wait is logged; mcid is then the zero value
completeWaitCommit ==
    /\ task.pc = "complete"
    /\ \E ok \in BOOLEAN :
        /\ calls' = Append(calls, Call("WaitCommit", task.phase, 0, 0, NoProof, ok, 0, NoResp))
        /\ task' = [task EXCEPT !.pc = "sendComplete",
                                !.mcid = IF ok THEN "commitmsg" ELSE ZeroCid]
    /\ UNCHANGED <<deal, hcfg, stop, owner, recv, tasks, chk>>

\* lines 302-312
completeSendResponse ==
    /\ task.pc = "sendComplete"
    /\ \E ok \in BOOLEAN :
        calls' = Append(calls, Call("sendSignedResponse", task.phase, 0, 0, NoProof, ok, 0,
                                    Response(DealComplete, task.snap.ProposalCid, <<>>, <<>>,
                                             <<task.mcid>>)))
    /\ task' = Return(NoMut, NoErr)
    /\ UNCHANGED <<deal, hcfg, stop, owner, recv, tasks, chk>>

----------------------------------------------------------------------------
(* Handler.handle: what the task does once its callback has returned *)

\* line 27 with the test of err left out
Skips_IgnoringErr(err, next) == next = DealNoUpdate

\* line 27
Skips(err, next) == err = NoErr /\ next = DealNoUpdate

\* lines 32-37
minerDealUpdate(d, next, err, mut) ==
    [newState |-> next, id |-> d.ProposalCid, err |-> err, mut |-> mut]

\* lines 31-39 with the select left without its case <-h.stop
StopCaseReady_Never(stopped) == FALSE

\* line 38 as a default case: taken whether or not h.stop is closed
StopCaseReady_Always(stopped) == TRUE

\* line 38: the case <-h.stop can be taken once h.stop is closed
StopCaseReady(stopped) == stopped

\* lines 27-29
handleSkip ==
    /\ task.pc = "returned"
    /\ Skips(task.err, task.next)
    /\ task' = [task EXCEPT !.pc = "skipped"]
    /\ UNCHANGED <<deal, hcfg, calls, stop, owner, recv, tasks, chk>>

\* The phase the owner starts once a deal has reached a state, and the state
\* that phase leads to.
PhaseOf(state) ==
    CASE state = DealAccepted -> "accept"
      [] state = DealStaged   -> "staged"
      [] state = DealSealing  -> "sealing"
      [] state = DealComplete -> "complete"
      [] OTHER                -> "none"

NextOf(state) ==
    CASE state = DealAccepted -> DealStaged
      [] state = DealStaged   -> DealSealing
      [] state = DealSealing  -> DealComplete
      [] OTHER                -> DealNoUpdate

\* The owner's reaction to an update: an error fails the deal; otherwise the
\* new state and the mutation are written to the deal record.
onUpdated(d, update) ==
    IF update.err # NoErr THEN [d EXCEPT !.State = DealFailed]
    ELSE ApplyMut(update.mut, [d EXCEPT !.State = update.newState])

\* lines 31-37: the send on h.updated, taken by the owner loop, which applies
\* the update and starts the next phase
handleSend ==
    /\ task.pc = "returned"
    /\ ~Skips(task.err, task.next)
    /\ owner = "running"
    /\ LET update == minerDealUpdate(task.snap, task.next, task.err, task.mut)
           d == onUpdated(deal, update)
       IN  /\ recv' = Append(recv, update)
           /\ deal' = d
           /\ task' = IF update.err = NoErr /\ PhaseOf(update.newState) # "none"
                      THEN StartTask(PhaseOf(update.newState), d, NextOf(update.newState))
                      ELSE [task EXCEPT !.pc = "sent"]
    /\ UNCHANGED <<hcfg, calls, stop, owner, tasks, chk>>

\* line 38
handleStop ==
    /\ task.pc = "returned"
    /\ ~Skips(task.err, task.next)
    /\ StopCaseReady(stop)
    /\ task' = [task EXCEPT !.pc = "dropped"]
    /\ UNCHANGED <<deal, hcfg, calls, stop, owner, recv, tasks, chk>>

----------------------------------------------------------------------------
(* The owner loop and shutdown *)

\* A new deal is recorded as accepted and its Accept phase is started.
newDeal ==
    /\ owner = "running"
    /\ deal.State = DealUnknown
    /\ deal' = [deal EXCEPT !.State = DealAccepted]
    /\ task' = StartTask("accept", deal', DealStaged)
    /\ UNCHANGED <<hcfg, calls, stop, owner, recv, tasks, chk>>

\* close(h.stop)
Stop ==
    /\ ~stop
    /\ stop' = TRUE
    /\ UNCHANGED <<deal, hcfg, task, calls, owner, recv, tasks, chk>>

\* the owner loop takes the stop case and returns
ownerExit ==
    /\ owner = "running"
    /\ stop
    /\ owner' = "exited"
    /\ UNCHANGED <<deal, hcfg, task, calls, stop, recv, tasks, chk>>

----------------------------------------------------------------------------
(* Spec: one deal through its phases *)

Init ==
    /\ deal \in {NewMinerDeal(p) : p \in Proposals}
    /\ hcfg = [pricePerByteBlock |-> 1]
    /\ task = IdleTask
    /\ calls = <<>>
    /\ stop = FALSE
    /\ owner = "running"
    /\ recv = <<>>
    /\ tasks = <<>>
    /\ chk = <<>>

Next ==
    \/ newDeal
    \/ acceptStart
    \/ acceptStateWaitMsg
    \/ consumeChainHead
    \/ consumeCheckVoucher
    \/ consumeMinPrice
    \/ consumeRedeem
    \/ acceptSendResponse
    \/ acceptFetchGraph
    \/ stagedSendResponse
    \/ stagedDagGet
    \/ stagedNewUnixfsFile
    \/ stagedAddUnixfsPiece
    \/ sealingWaitSealed
    \/ sealingGetInclusionProof
    \/ sealingStoreProof
    \/ sealingSendResponse
    \/ completeWaitCommit
    \/ completeSendResponse
    \/ handleSkip
    \/ handleSend
    \/ handleStop
    \/ Stop
    \/ ownerExit

Spec == Init /\ [][Next]_vars


----------------------------------------------------------------------------
(* SpecHandle: concurrent handle() invocations with arbitrary callbacks.    *)
(* Task t works on its own deal; a callback may return any mutation and any *)
(* error, and next may be any state.                                        *)

TaskIds == 1..MaxTasks

NextStates == {DealStaged, DealSealing, DealNoUpdate}
CallbackErrs == {NoErr, "ErrPhase"}
CallbackMuts == {NoMut, SetSectorID(7)}

CidOf(t) == <<"propcid", t>>

HandleDeal(t) ==
    [ProposalCid |-> CidOf(t), SectorID |-> 0, State |-> DealAccepted]

IdleHandle(t) ==
    [pc |-> "idle", snap |-> HandleDeal(t), next |-> DealNoUpdate,
     mut |-> NoMut, err |-> NoErr]

InitHandle ==
    /\ tasks = [t \in TaskIds |-> IdleHandle(t)]
    /\ deal = [t \in TaskIds |-> HandleDeal(t)]
    /\ stop = FALSE
    /\ owner = "running"
    /\ recv = <<>>
    /\ hcfg = <<>> /\ task = <<>> /\ calls = <<>> /\ chk = <<>>

\* line 23-24: handle(ctx, deal, cb, next) starts the task
handle(t) ==
    /\ tasks[t].pc = "idle"
    /\ \E next \in NextStates :
        tasks' = [tasks EXCEPT ![t].pc = "callback", ![t].snap = deal[t],
                               ![t].next = next]
    /\ UNCHANGED <<deal, hcfg, task, calls, stop, owner, recv, chk>>

\* line 25: mut, err := cb(ctx, deal)
handleCallback(t) ==
    /\ tasks[t].pc = "callback"
    /\ \E mut \in CallbackMuts, err \in CallbackErrs :
        tasks' = [tasks EXCEPT ![t].pc = "returned", ![t].mut = mut, ![t].err = err]
    /\ UNCHANGED <<deal, hcfg, task, calls, stop, owner, recv, chk>>

\* lines 27-29
handleNoUpdate(t) ==
    /\ tasks[t].pc = "returned"
    /\ Skips(tasks[t].err, tasks[t].next)
    /\ tasks' = [tasks EXCEPT ![t].pc = "skipped"]
    /\ UNCHANGED <<deal, hcfg, task, calls, stop, owner, recv, chk>>

\* lines 31-37: the send, taken by the owner loop, which applies the update
handleUpdated(t) ==
    /\ tasks[t].pc = "returned"
    /\ ~Skips(tasks[t].err, tasks[t].next)
    /\ owner = "running"
    /\ LET update == minerDealUpdate(tasks[t].snap, tasks[t].next,
                                     tasks[t].err, tasks[t].mut)
       IN  /\ recv' = Append(recv, update)
           /\ deal' = [deal EXCEPT ![t] = onUpdated(deal[t], update)]
    /\ tasks' = [tasks EXCEPT ![t].pc = "sent"]
    /\ UNCHANGED <<hcfg, task, calls, stop, owner, chk>>

\* line 38 with the mutation run by the task itself before it ends
handleStopped_ApplyingMut(t) ==
    /\ tasks[t].pc = "returned"
    /\ ~Skips(tasks[t].err, tasks[t].next)
    /\ StopCaseReady(stop)
    /\ tasks' = [tasks EXCEPT ![t].pc = "dropped"]
    /\ deal' = [deal EXCEPT ![t] = ApplyMut(tasks[t].mut, deal[t])]
    /\ UNCHANGED <<hcfg, task, calls, stop, owner, recv, chk>>

\* line 38
handleStopped(t) ==
    /\ tasks[t].pc = "returned"
    /\ ~Skips(tasks[t].err, tasks[t].next)
    /\ StopCaseReady(stop)
    /\ tasks' = [tasks EXCEPT ![t].pc = "dropped"]
    /\ UNCHANGED <<deal, hcfg, task, calls, stop, owner, recv, chk>>

NextHandle ==
    \/ \E t \in TaskIds : handle(t)
    \/ \E t \in TaskIds : handleCallback(t)
    \/ \E t \in TaskIds : handleNoUpdate(t)
    \/ \E t \in TaskIds : handleUpdated(t)
    \/ \E t \in TaskIds : handleStopped(t)
    \/ Stop
    \/ ownerExit

SpecHandle == InitHandle /\ [][NextHandle]_vars

\* SpecHandle with the scheduling the code relies on: a started goroutine
\* runs, its callback returns, and a select with a ready case takes one (the
\* owner loop receives while it runs, and h.stop is closed before it exits).
FairHandle ==
    \A t \in TaskIds :
        /\ WF_vars(handleCallback(t))
        /\ WF_vars(handleNoUpdate(t))
        /\ WF_vars(handleUpdated(t) \/ handleStopped(t))

SpecHandleFair == SpecHandle /\ FairHandle

----------------------------------------------------------------------------
(* SpecCheck: checkVoucher on every voucher of a bounded set *)

\* The proposal terms checkVoucher reads.
CheckProposal == [MinerAddress |-> MinerAddr, Size |-> 1, CommP |-> CommPGood]

CheckData ==
    {GarbageData} \cup
    {EncodeChallenge(sz, cp) : sz \in {1, 3}, cp \in {CommPGood, CommPOther}}

CheckExtras ==
    {NoExtra} \cup
    {MkExtra(a, m, d) : a \in {MinerAddr, OtherAddr},
                        m \in {PaymentVerifyInclusion, OtherMethod},
                        d \in CheckData}

CheckVouchers ==
    [Lane : {0, 1}, TimeLock : {6, 9}, MinCloseHeight : {0, 10},
     Merges : {<<>>, <<"merge">>}, Amount : {1, 2, 4}, Extra : CheckExtras]

NotChecked == "pending"

InitCheckVoucher ==
    /\ chk \in [voucher : CheckVouchers, valid : BOOLEAN, lane : {0, 1},
                maxClose : {7}, amount : {2}, result : {NotChecked}]
    /\ deal = <<>> /\ hcfg = <<>> /\ task = <<>> /\ calls = <<>>
    /\ stop = FALSE /\ owner = "none" /\ recv = <<>> /\ tasks = <<>>

ApplyCheckVoucher ==
    /\ chk.result = NotChecked
    /\ chk' = [chk EXCEPT !.result =
                  checkVoucher(CheckProposal, chk.voucher, chk.valid,
                               chk.lane, chk.maxClose, chk.amount)]
    /\ UNCHANGED <<deal, hcfg, task, calls, stop, owner, recv, tasks>>

NextCheck == ApplyCheckVoucher

SpecCheck == InitCheckVoucher /\ [][NextCheck]_vars

----------------------------------------------------------------------------
(* Claims about the dispatcher, checked under SpecHandle *)

\* the positions in recv of the updates of task t's deal
Received(t) == {k \in DOMAIN recv : recv[k].id = CidOf(t)}

Finished(t) == tasks[t].pc \in {"skipped", "sent", "dropped"}

\* C1: an invocation whose callback returned no error with next =
\* DealNoUpdate places no update on the channel; every other invocation
\* whose callback returned attempts one delivery (it waits in the select,
\* or has sent, or was released by stop), and what the owner receives from
\* it is exactly one update carrying the proposal id, next, the error and
\* the mutation.
C1_UpdateUnlessNoErrorAndNoUpdate ==
    \A t \in TaskIds :
        /\ tasks[t].pc \in {"idle", "callback", "returned"} => Received(t) = {}
        /\ Finished(t) =>
            IF tasks[t].err = NoErr /\ tasks[t].next = DealNoUpdate
            THEN tasks[t].pc = "skipped" /\ Received(t) = {}
            ELSE /\ tasks[t].pc \in {"sent", "dropped"}
                 /\ Cardinality(Received(t)) = IF tasks[t].pc = "sent" THEN 1 ELSE 0
                 /\ \A k \in Received(t) :
                        recv[k] = [newState |-> tasks[t].next, id |-> CidOf(t),
                                   err |-> tasks[t].err, mut |-> tasks[t].mut]

\* C1 witness: one task ended without an update (no error, DealNoUpdate) and
\* another delivered an error although its next state was DealNoUpdate.
C1_Witness ==
    \E t1, t2 \in TaskIds :
        /\ tasks[t1].pc = "skipped"
        /\ tasks[t2].pc = "sent" /\ tasks[t2].err # NoErr
        /\ tasks[t2].next = DealNoUpdate
        /\ Cardinality(Received(t2)) = 1

\* C2 as stated: every error a callback returned is delivered exactly once,
\* whatever the interleaving with shutdown.
C2_ErrorDeliveredExactlyOnce ==
    \A t \in TaskIds :
        (Finished(t) /\ tasks[t].err # NoErr) => Cardinality(Received(t)) = 1

\* C2 amended: an error a callback returned is never skipped and never
\* delivered twice; the task ends having delivered it exactly once, or, only
\* when h.stop has been closed, having dropped it undelivered.
C2_ErrorDeliveredOnceOrDroppedOnStop ==
    \A t \in TaskIds :
        (tasks[t].pc \in {"returned", "skipped", "sent", "dropped"} /\ tasks[t].err # NoErr) =>
            /\ tasks[t].pc # "skipped"
            /\ Cardinality(Received(t)) <= 1
            /\ tasks[t].pc = "sent" <=> Cardinality(Received(t)) = 1
            /\ tasks[t].pc = "dropped" => stop

\* C2 witness: with h.stop closed, one error was delivered and another was
\* dropped.
C2_Witness ==
    \E t1, t2 \in TaskIds :
        /\ stop
        /\ tasks[t1].pc = "sent" /\ tasks[t1].err # NoErr
        /\ Cardinality(Received(t1)) = 1
        /\ tasks[t2].pc = "dropped" /\ tasks[t2].err # NoErr
        /\ Received(t2) = {}

----------------------------------------------------------------------------
(* Claims about the phases of one deal, checked under Spec *)

Vouchers == deal.Proposal.Vouchers

\* the positions in calls of the calls of one operation made by one phase
CallsOf(op, phase) ==
    {k \in DOMAIN calls : calls[k].op = op /\ calls[k].phase = phase}

\* the redemptions requested by Accept, and the proofs stored by Sealing
Redemptions == CallsOf("PaychVoucherAdd", "accept")
ProofStores == CallsOf("PaychVoucherAdd", "sealing")

\* what Accept does for the client once the vouchers are consumed
AcceptEffects ==
    Redemptions \cup CallsOf("sendSignedResponse", "accept")
                \cup CallsOf("FetchGraph", "accept")

\* voucher j passed checkVoucher before call k was made
CheckedBefore(j, k) ==
    \E c \in 1..(k - 1) :
        calls[c].op = "checkVoucher" /\ calls[c].i = j /\ calls[c].ok

FailedChecks == {k \in DOMAIN calls : calls[k].op = "checkVoucher" /\ ~calls[k].ok}

AcceptFailed ==
    /\ task.phase = "accept"
    /\ task.pc \in {"returned", "sent", "dropped"}
    /\ task.err # NoErr

\* C3: Accept requests no redemption, sends no response and starts no fetch
\* before every voucher of the proposal has passed checkVoucher; once a
\* checkVoucher call has failed, Accept has returned an error and not one
\* redemption has been requested.
C3_NoEffectBeforeAllVouchersChecked ==
    /\ \A k \in AcceptEffects : \A j \in 1..Len(Vouchers) : CheckedBefore(j, k)
    /\ FailedChecks # {} => (AcceptFailed /\ AcceptEffects = {})

\* C3 witness: the second voucher failed its check after the first had
\* passed, and Accept returned the error without any redemption.
C3_Witness ==
    /\ \E k \in FailedChecks : calls[k].i = 2 /\ CheckedBefore(1, k)
    /\ AcceptFailed
    /\ Redemptions = {}

\* the PaychVoucherAdd calls made for voucher j in a set of calls
ForVoucher(ks, j) == {k \in ks : calls[k].i = j}

\* C4 as stated: over the life of the deal PaychVoucherAdd is requested at
\* most once for each voucher.
C4_AtMostOnePaychVoucherAddPerVoucher ==
    \A j \in 1..Len(Vouchers) :
        Cardinality(ForVoucher(Redemptions \cup ProofStores, j)) <= 1

\* C4 amended: PaychVoucherAdd is requested for a voucher at most once by
\* Accept (without proof) and at most once by Sealing (with the inclusion
\* proof and a minimum delta of 0), and by no other phase.
C4_AtMostOncePerVoucherAndPhase ==
    /\ \A j \in 1..Len(Vouchers) :
        /\ Cardinality(ForVoucher(Redemptions, j)) <= 1
        /\ Cardinality(ForVoucher(ProofStores, j)) <= 1
    /\ \A k \in DOMAIN calls :
        calls[k].op = "PaychVoucherAdd" =>
            /\ calls[k].phase \in {"accept", "sealing"}
            /\ calls[k].i \in 1..Len(Vouchers)
            /\ calls[k].phase = "accept" => calls[k].proof = NoProof
            /\ calls[k].phase = "sealing" =>
                   (calls[k].proof # NoProof /\ calls[k].amt = 0)

\* C4 witness: PaychVoucherAdd was requested twice for the second voucher,
\* once by Accept and once by Sealing.
C4_Witness ==
    /\ Len(Vouchers) = 2
    /\ Cardinality(ForVoucher(Redemptions, 2)) = 1
    /\ Cardinality(ForVoucher(ProofStores, 2)) = 1

\* a successful iteration of the redemption loop
RedeemStep ==
    /\ task.pc = "PaychVoucherAdd"
    /\ task'.phase = "accept"
    /\ task'.pc \in {"PaychVoucherAdd", "sendAccepted"}
    /\ Len(calls') = Len(calls) + 1

\* C5 as stated: in the redemption loop prevAmt never decreases, and after
\* voucher i has been redeemed it does not exceed the schedule's amount for i.
C5_PrevAmtWithinSchedule ==
    [][RedeemStep =>
        /\ task'.prevAmt >= task.prevAmt
        /\ task'.prevAmt <= task.vspec[task.i].Amount]_vars

\* C5 amended: in the redemption loop prevAmt never decreases, and after
\* voucher i has been redeemed it is at least the schedule's amount for i
\* (it exceeds it by what the ledger reported above the requested deltas).
C5_PrevAmtCoversSchedule ==
    [][RedeemStep =>
        /\ task'.prevAmt >= task.prevAmt
        /\ task'.prevAmt >= task.vspec[task.i].Amount
        /\ task'.prevAmt = task.prevAmt + calls'[Len(calls')].delta]_vars

\* C5 witness: after the first of two vouchers was redeemed, prevAmt lies
\* above the schedule's amount for it.
C5_Witness ==
    /\ task.phase = "accept" /\ task.pc = "PaychVoucherAdd" /\ task.i = 2
    /\ task.prevAmt > task.vspec[1].Amount

\* the schedule's amount before index i
SchedBefore(i) == IF i = 1 THEN 0 ELSE task.vspec[i - 1].Amount

RECURSIVE SumAmt(_)
SumAmt(ks) ==
    IF ks = {} THEN 0
    ELSE LET k == CHOOSE x \in ks : TRUE IN calls[k].amt + SumAmt(ks \ {k})

RECURSIVE SumDelta(_)
SumDelta(ks) ==
    IF ks = {} THEN 0
    ELSE LET k == CHOOSE x \in ks : TRUE IN calls[k].delta + SumDelta(ks \ {k})

\* the redemption loop of Accept has just ended without error
AllRedeemed == task.phase = "accept" /\ task.pc = "sendAccepted"

\* C6 as stated: the amount requested for voucher i is at most schedule[i] -
\* schedule[i-1], and over a run in which every redemption succeeds the
\* requested amounts sum to the schedule's amount for the last voucher.
C6_RequestsSumToSchedule ==
    task.phase = "accept" =>
        /\ \A k \in Redemptions :
               calls[k].amt <= task.vspec[calls[k].i].Amount - SchedBefore(calls[k].i)
        /\ AllRedeemed => SumAmt(Redemptions) = task.vspec[Len(Vouchers)].Amount

\* C6 amended: the amount requested for voucher i is at most schedule[i] -
\* schedule[i-1]; over a run in which every redemption succeeds the requested
\* amounts sum to at most the schedule's amount for the last voucher, the
\* reported deltas sum to at least that amount, and the two sums agree with
\* it when every reported delta equals the amount requested.
C6_RequestsWithinSchedule ==
    task.phase = "accept" =>
        /\ \A k \in Redemptions :
               calls[k].amt <= task.vspec[calls[k].i].Amount - SchedBefore(calls[k].i)
        /\ AllRedeemed =>
            /\ SumAmt(Redemptions) <= task.vspec[Len(Vouchers)].Amount
            /\ SumDelta(Redemptions) >= task.vspec[Len(Vouchers)].Amount
            /\ (\A k \in Redemptions : calls[k].delta = calls[k].amt)
                   => SumAmt(Redemptions) = task.vspec[Len(Vouchers)].Amount

\* C6 witness: two vouchers were redeemed and the requested amounts sum to
\* less than the schedule's amount for the last one.
C6_Witness ==
    /\ AllRedeemed
    /\ Cardinality(Redemptions) = 2
    /\ SumAmt(Redemptions) < task.vspec[2].Amount

\* the proposal's total price is below pricePerByteBlock * Size * Duration
BelowPriceFloor ==
    deal.Proposal.TotalPrice <
        hcfg.pricePerByteBlock * deal.Proposal.Size * deal.Proposal.Duration

\* C7 as stated: a proposal below the price floor is refused before any
\* voucher is examined: no checkVoucher call and no redemption.
C7_RefusedBeforeAnyVoucherExamined ==
    BelowPriceFloor =>
        /\ CallsOf("checkVoucher", "accept") = {}
        /\ Redemptions = {}

\* C7 amended: a proposal below the price floor is refused before any
\* redemption, response or fetch, but after the vouchers have been examined:
\* Accept never gets past consumeVouchers, and when it fails with the price
\* error every voucher has passed checkVoucher.
C7_RefusedBeforeAnyRedemption ==
    BelowPriceFloor =>
        /\ AcceptEffects = {}
        /\ task.phase \in {"none", "accept"}
        /\ task.pc \in {"returned", "sent", "dropped"} => task.err # NoErr
        /\ task.err = "ErrMinPrice" =>
               \A j \in 1..Len(Vouchers) : CheckedBefore(j, Len(calls) + 1)

\* C7 witness: Accept failed with the price error after checkVoucher had
\* passed both vouchers.
C7_Witness ==
    /\ BelowPriceFloor
    /\ AcceptFailed /\ task.err = "ErrMinPrice"
    /\ Len(Vouchers) = 2
    /\ Cardinality(CallsOf("checkVoucher", "accept")) = 2

\* consumeVouchers has returned without error
ConsumeSucceeded ==
    \/ task.phase = "accept" /\ task.pc \in {"sendAccepted", "FetchGraph"}
    \/ task.phase = "accept" /\ task.pc \in {"returned", "sent", "dropped"}
         /\ task.err \in {NoErr, "ErrSendResponse", "ErrFetchGraph"}
    \/ task.phase \in {"staged", "sealing", "complete"}

SameLane == \A j \in 1..Len(Vouchers) : Vouchers[j].Lane = Vouchers[1].Lane

\* C10: consumeVouchers returns no error only if every voucher has the lane
\* of the first, and every voucher Accept requests redemption for is on that
\* lane.
C10_OneLanePerDeal ==
    /\ ConsumeSucceeded => SameLane
    /\ \A k \in Redemptions : Vouchers[calls[k].i].Lane = Vouchers[1].Lane
    /\ Redemptions # {} => SameLane

\* C10 witness: consumeVouchers succeeded for two vouchers on lane 1.
C10_Witness ==
    /\ ConsumeSucceeded
    /\ Len(Vouchers) = 2 /\ Vouchers[1].Lane = 1
    /\ Cardinality(Redemptions) = 2

----------------------------------------------------------------------------
(* Claims about checkVoucher, checked under SpecCheck *)

Checked == chk.result # NotChecked

ExtraSet == chk.voucher.Extra # NoExtra
ExtraOf == chk.voucher.Extra[1]

\* the conditions of the validator, each on its own
ValidOnChain == chk.valid
ActorMatches == ExtraSet /\ ExtraOf.Actor = CheckProposal.MinerAddress
MethodMatches == ExtraSet /\ ExtraOf.Method = PaymentVerifyInclusion
Decodes == ExtraSet /\ DecodeOK(ExtraOf.Data)
PieceSizeMatches == Decodes /\ ExtraOf.Data[2] = CheckProposal.Size
CommPMatches == Decodes /\ ExtraOf.Data[3] = CheckProposal.CommP
MinCloseInBound == chk.voucher.MinCloseHeight <= chk.maxClose
TimeLockInBound == chk.voucher.TimeLock <= chk.maxClose
NoMerges == chk.voucher.Merges = <<>>
AmountCovers == chk.voucher.Amount >= chk.amount
LaneMatches == chk.voucher.Lane = chk.lane

\* C8: checkVoucher returns no error exactly when the voucher is valid on
\* chain, Extra is set with the miner as actor and PaymentVerifyInclusion as
\* method, its data decodes to the proposal's piece size and CommP,
\* MinCloseHeight and TimeLock are at most maxClose, there are no merges, the
\* amount is at least the required one and the lane is the given one; a
\* piece-size or CommP mismatch or a bound violation is rejected whatever the
\* other fields are.
C8_AcceptsExactlyWellFormedVouchers ==
    Checked =>
        /\ chk.result = NoErr <=>
              /\ ValidOnChain /\ ExtraSet /\ ActorMatches /\ MethodMatches
              /\ Decodes /\ PieceSizeMatches /\ CommPMatches
              /\ MinCloseInBound /\ TimeLockInBound /\ NoMerges
              /\ AmountCovers /\ LaneMatches
        /\ (Decodes /\ ~(PieceSizeMatches /\ CommPMatches)) => chk.result # NoErr
        /\ ~(MinCloseInBound /\ TimeLockInBound) => chk.result # NoErr

\* C8 witness: a voucher carrying exactly the required amount was accepted.
C8_Witness ==
    /\ Checked /\ chk.result = NoErr
    /\ chk.voucher.Amount = chk.amount
    /\ chk.voucher.Lane = 1

\* the class, in the order of the specification's list, of each reason
SpecClass(err) ==
    CASE err = "ErrCheckValid" -> 1
      [] err \in {"ErrExtraNotSet", "ErrDecode", "ErrPieceSize", "ErrCommP"} -> 2
      [] err \in {"ErrExtraActor", "ErrExtraMethod"} -> 3
      [] err \in {"ErrMinCloseHeight", "ErrTimeLock"} -> 4
      [] err = "ErrMerges" -> 5
      [] err = "ErrAmount" -> 6
      [] err = "ErrLane" -> 7
      [] OTHER -> 0

\* the classes of the specification's list the voucher violates
SpecViolations ==
    {c \in 1..7 :
        CASE c = 1 -> ~ValidOnChain
          [] c = 2 -> ~(ExtraSet /\ Decodes /\ PieceSizeMatches /\ CommPMatches)
          [] c = 3 -> ~(ActorMatches /\ MethodMatches)
          [] c = 4 -> ~(MinCloseInBound /\ TimeLockInBound)
          [] c = 5 -> ~NoMerges
          [] c = 6 -> ~AmountCovers
          [] c = 7 -> ~LaneMatches}

Least(S) == CHOOSE x \in S : \A y \in S : x <= y

\* C9 as stated: checkVoucher fails with a reason of the first violated
\* class in the order of the specification's list.
C9_FirstViolationInListedOrder ==
    (Checked /\ SpecViolations # {}) => SpecClass(chk.result) = Least(SpecViolations)

\* the order in which the code tests the conditions
CodeOrder ==
    <<"ErrCheckValid", "ErrExtraNotSet", "ErrExtraActor", "ErrExtraMethod",
      "ErrDecode", "ErrPieceSize", "ErrCommP", "ErrMinCloseHeight",
      "ErrTimeLock", "ErrMerges", "ErrAmount", "ErrLane">>

\* the reasons of CodeOrder the voucher gives; a reason about the content of
\* Extra or of its data arises only when Extra is set or the data decodes
CodeViolations ==
    {c \in 1..12 :
        CASE c = 1  -> ~ValidOnChain
          [] c = 2  -> ~ExtraSet
          [] c = 3  -> ExtraSet /\ ~ActorMatches
          [] c = 4  -> ExtraSet /\ ~MethodMatches
          [] c = 5  -> ExtraSet /\ ~Decodes
          [] c = 6  -> Decodes /\ ~PieceSizeMatches
          [] c = 7  -> Decodes /\ ~CommPMatches
          [] c = 8  -> ~MinCloseInBound
          [] c = 9  -> ~TimeLockInBound
          [] c = 10 -> ~NoMerges
          [] c = 11 -> ~AmountCovers
          [] c = 12 -> ~LaneMatches}

\* C9 amended: checkVoucher fails with the reason of the first violation in
\* the order: chain validity, Extra set, Extra actor, Extra method, data
\* decodes, piece size, CommP, MinCloseHeight, TimeLock, merges, amount, lane
\* (actor and method are tested before the challenge, not after it).
C9_FirstViolationInCodeOrder ==
    (Checked /\ CodeViolations # {}) => chk.result = CodeOrder[Least(CodeViolations)]

\* C9 witness: a voucher with a foreign actor, a wrong piece size and a
\* wrong lane was rejected for its actor.
C9_Witness ==
    /\ Checked /\ chk.valid
    /\ ExtraSet /\ ~ActorMatches /\ Decodes /\ ~PieceSizeMatches /\ ~LaneMatches
    /\ chk.result = "ErrExtraActor"

----------------------------------------------------------------------------
(* Claims about the responses and the phases' steps, under Spec *)

\* the phase the task runs has come to its end
PhaseDone == task.pc \in {"returned", "skipped", "sent", "dropped"}

\* the sendSignedResponse calls of a phase, and those that failed
Sends(phase) == CallsOf("sendSignedResponse", phase)
FailedSends(phase) == {k \in Sends(phase) : ~calls[k].ok}

\* a call to op was made by the phase after call k
CalledAfter(op, phase, k) == \E c \in CallsOf(op, phase) : c > k

\* the send of the running phase failed, and the phase went on as if it had
\* not: it does not return the send's error, Accept goes on to FetchGraph
\* and Stage to dag.Get and the packing
SendFailureOnlyLogged(phase) ==
    (task.phase = phase /\ FailedSends(phase) # {}) =>
        /\ task.err # "ErrSendResponse"
        /\ (phase = "accept" /\ PhaseDone) =>
               \A k \in FailedSends(phase) : CalledAfter("FetchGraph", phase, k)
        /\ (phase = "staged" /\ PhaseDone) =>
               \A k \in FailedSends(phase) : CalledAfter("dagGet", phase, k)
        /\ (phase \in {"sealing", "complete"} /\ PhaseDone) =>
               task.err = NoErr /\ task.mut = NoMut

\* C11 as stated: in every phase (Accept, Stage, Sealing, Complete) a failed
\* sendSignedResponse is only logged; the phase never returns an error
\* because of it and its remaining work (Accept's fetch, Stage's packing)
\* still runs.
C11_SendFailureLoggedInEveryPhase ==
    \A phase \in {"accept", "staged", "sealing", "complete"} :
        SendFailureOnlyLogged(phase)

\* C11 amended: a failed sendSignedResponse is only logged in Stage, Sealing
\* and Complete, whose remaining work still runs; in Accept it ends the
\* phase: accept returns the send's error and FetchGraph is never called.
C11_SendFailureLoggedExceptInAccept ==
    /\ \A phase \in {"staged", "sealing", "complete"} : SendFailureOnlyLogged(phase)
    /\ (task.phase = "accept" /\ FailedSends("accept") # {}) =>
          /\ task.pc \in {"returned", "sent", "dropped"}
          /\ task.err = "ErrSendResponse"
          /\ task.mut = NoMut
          /\ CallsOf("FetchGraph", "accept") = {}
    /\ task.err = "ErrSendResponse" => task.phase = "accept"

\* Stage's send failed and the piece was packed all the same
C11_Witness ==
    /\ task.phase = "staged"
    /\ task.pc = "returned"
    /\ FailedSends("staged") # {}
    /\ task.err = NoErr
    /\ task.mut # NoMut
    /\ \E k \in CallsOf("AddUnixfsPiece", "staged") : calls[k].ok

\* the commit-message reference the 'complete' response of call k carries
CommitRefOf(k) == calls[k].resp[1].SectorCommitMessage

\* C12: Complete always sends exactly one 'complete' response and returns no
\* error and no mutation, whether WaitCommit succeeded or failed; when
\* WaitCommit failed the response carries the zero-value commit-message
\* reference.
C12_CompleteAlwaysRespondsOnce ==
    /\ Cardinality(Sends("complete")) <= 1
    /\ (task.phase = "complete" /\ PhaseDone) =>
          /\ Cardinality(Sends("complete")) = 1
          /\ Cardinality(CallsOf("WaitCommit", "complete")) = 1
          /\ task.err = NoErr
          /\ task.mut = NoMut
    /\ \A k \in Sends("complete") :
          /\ calls[k].resp[1].State = DealComplete
          /\ \E w \in CallsOf("WaitCommit", "complete") :
                /\ w < k
                /\ CommitRefOf(k) = IF calls[w].ok THEN <<"commitmsg">> ELSE <<ZeroCid>>

\* WaitCommit failed, and Complete sent its response with the zero reference
\* and returned nil, nil
C12_Witness ==
    /\ task.phase = "complete"
    /\ PhaseDone
    /\ \E w \in CallsOf("WaitCommit", "complete") : ~calls[w].ok
    /\ \E k \in Sends("complete") : CommitRefOf(k) = <<ZeroCid>>
    /\ task.err = NoErr

WaitSeals == CallsOf("WaitSeal", "sealing")

\* WaitSeal call w returned without error, with state Sealed and a piece list
\* that holds the key of the deal's data
SealedWithKey(w) ==
    /\ calls[w].ok
    /\ calls[w].resp[1].State = "Sealed"
    /\ \E i \in DOMAIN calls[w].resp[1].Pieces :
          calls[w].resp[1].Pieces[i].Key = PieceKey(deal.Ref)

\* C13: Sealing stores inclusion proofs and sends the 'sealing' response only
\* when WaitSeal returned without error with state Sealed and the sector's
\* piece list holds the key of the deal's data; in every other case it
\* returns an error, with no voucher redemption and no response.
C13_SealingNeedsSealedSectorWithPiece ==
    /\ \A k \in ProofStores \cup Sends("sealing") :
          \E w \in WaitSeals : w < k /\ SealedWithKey(w)
    /\ \A w \in WaitSeals :
          ~SealedWithKey(w) =>
             /\ ProofStores = {}
             /\ Sends("sealing") = {}
             /\ task.phase = "sealing"
             /\ \/ task.pc = "getInclusionProof"
                \/ /\ task.pc \in {"returned", "sent", "dropped"}
                   /\ task.err # NoErr
                   /\ task.mut = NoMut

\* a sealed sector that holds the deal's piece after another one had the
\* piece's proof stored and the response sent
C13_Witness ==
    /\ task.phase = "sealing"
    /\ task.pc = "returned"
    /\ \E w \in WaitSeals :
          /\ SealedWithKey(w)
          /\ Len(calls[w].resp[1].Pieces) = 2
    /\ ProofStores # {}
    /\ Sends("sealing") # {}

\* C14: Accept of a proposal whose serialization mode is not UnixFs returns
\* an error at once: before any wait for the channel message, any ChainHead
\* query, any voucher check or redemption, any response and any fetch.
C14_UnsupportedSerializationRejectedFirst ==
    deal.Proposal.SerializationMode # SerializationUnixFs =>
        /\ calls = <<>>
        /\ task.phase \in {"none", "accept"}
        /\ \/ task.pc \in {"idle", "accept"}
           \/ /\ task.pc \in {"returned", "sent", "dropped"}
              /\ task.err = "ErrSerialization"
              /\ task.mut = NoMut

\* a raw proposal that names a channel message and carries vouchers was
\* refused, and no collaborator was called
C14_Witness ==
    /\ deal.Proposal.SerializationMode = SerializationRaw
    /\ deal.Proposal.ChannelMessage # <<>>
    /\ Len(Vouchers) > 0
    /\ task.phase = "accept"
    /\ task.pc = "returned"
    /\ task.err = "ErrSerialization"
    /\ calls = <<>>

\* a step of a phase callback: the task is at a position inside its phase
PhaseStep ==
    /\ task.pc \notin {"idle", "returned", "skipped", "sent", "dropped", "panicked"}
    /\ task' # task

\* a mutation is returned by Stage alone, and only with a nil error after
\* AddUnixfsPiece succeeded; applied to the deal record it sets SectorID to
\* the sector the piece went into and changes no other field
MutationOnlyFromStage ==
    task.mut # NoMut =>
        /\ task.phase = "staged"
        /\ task.err = NoErr
        /\ \E k \in CallsOf("AddUnixfsPiece", "staged") : calls[k].ok
        /\ DOMAIN ApplyMut(task.mut, deal) = DOMAIN deal
        /\ ApplyMut(task.mut, deal).SectorID \in SectorIDs
        /\ \A f \in DOMAIN deal \ {"SectorID"} : ApplyMut(task.mut, deal)[f] = deal[f]

\* C15: the phase handlers work on a by-value snapshot and never write the
\* owner's deal record; Accept, Sealing and Complete return no mutation in
\* any outcome; Stage is the only phase that returns one, only when it
\* succeeds, and applying it changes SectorID and no other field.
C15_PhasesReturnMutationsOnly ==
    [][ /\ PhaseStep => (deal' = deal /\ task'.snap = task.snap)
        /\ MutationOnlyFromStage'
        /\ (task'.phase \in {"accept", "sealing", "complete"}) => task'.mut = NoMut
        /\ (task'.phase = "staged" /\ task'.pc = "returned" /\ task'.err # NoErr)
              => task'.mut = NoMut
      ]_vars

\* Stage's mutation was applied by the owner: the record holds the sector,
\* and Sealing runs on a snapshot taken after it
C15_Witness ==
    /\ task.phase = "sealing"
    /\ deal.SectorID \in SectorIDs
    /\ task.snap.SectorID = deal.SectorID
    /\ deal.Ref = "ref"

----------------------------------------------------------------------------
(* Claims about the mutation and the update channel, under SpecHandle *)

\* the update task t offers in its select
UpdateOf(t) == minerDealUpdate(tasks[t].snap, tasks[t].next, tasks[t].err, tasks[t].mut)

\* the record of deal t changes in this step
RecordChanges(t) == deal'[t] # deal[t]

\* the owner receives the update of task t in this step
ReceivesUpdate(t) == recv' = Append(recv, UpdateOf(t)) /\ tasks'[t].pc = "sent"

\* task t takes the stop case in this step
DropsOutcome(t) == tasks[t].pc = "returned" /\ tasks'[t].pc = "dropped"

\* C16: a mutation returned by a phase is applied to the deal record only as
\* part of an update the owner received; in no interleaving of the send with
\* shutdown does the record change for an outcome that was dropped (an
\* outcome is received whole or discarded whole).
C16_MutationAppliedOnlyWhenReceived ==
    [][ \A t \in TaskIds :
          /\ RecordChanges(t) => ReceivesUpdate(t)
          /\ (ReceivesUpdate(t) /\ tasks[t].err = NoErr) =>
                /\ deal'[t].State = tasks[t].next
                /\ deal'[t].SectorID =
                      IF tasks[t].mut = NoMut THEN deal[t].SectorID ELSE tasks[t].mut[1]
          /\ DropsOutcome(t) => (deal' = deal /\ recv' = recv)
          /\ tasks'[t].pc = "dropped" => (deal'[t] = HandleDeal(t) /\ Received(t)' = {})
      ]_vars

\* with h.stop closed, one task's mutation was dropped and left its record
\* alone while another's was received and applied
C16_Witness ==
    \E t1, t2 \in TaskIds :
        /\ tasks[t1].pc = "dropped"
        /\ tasks[t1].mut # NoMut /\ tasks[t1].err = NoErr
        /\ deal[t1] = HandleDeal(t1)
        /\ tasks[t2].pc = "sent"
        /\ tasks[t2].mut # NoMut /\ tasks[t2].err = NoErr
        /\ deal[t2].SectorID = tasks[t2].mut[1]
        /\ stop

----------------------------------------------------------------------------
(* Claims about the responses, the start height, the schedule and the order of
   Accept, under Spec *)

\* the response call k handed to sendSignedResponse
RespOf(k) == calls[k].resp[1]

\* the state a phase tags its response with
TagOf(phase) ==
    CASE phase = "accept"   -> DealAccepted
      [] phase = "staged"   -> DealStaged
      [] phase = "sealing"  -> DealSealing
      [] phase = "complete" -> DealComplete

\* C18: each phase sends at most one response per run, tagged with its own
\* phase and the proposal reference; the Accepted and Staged responses carry
\* no inclusion proof, no CommD and no commit-message reference; the Sealing
\* response carries the piece inclusion proof and the sector's CommD; the
\* Complete response carries the commit-message reference.
C18_OneTaggedResponsePerPhase ==
    \A phase \in {"accept", "staged", "sealing", "complete"} :
        /\ Cardinality(Sends(phase)) <= 1
        /\ \A k \in Sends(phase) :
              /\ RespOf(k).State = TagOf(phase)
              /\ RespOf(k).Proposal = deal.ProposalCid
              /\ phase \in {"accept", "staged"} =>
                    /\ RespOf(k).PieceInclusionProof = <<>>
                    /\ RespOf(k).CommD = <<>>
                    /\ RespOf(k).SectorCommitMessage = <<>>
              /\ phase = "sealing" =>
                    \E w \in WaitSeals :
                        /\ w < k /\ calls[w].ok
                        /\ RespOf(k).PieceInclusionProof # <<>>
                        /\ RespOf(k).PieceInclusionProof =
                              getInclusionProof(PieceKey(deal.Ref), calls[w].resp[1])
                        /\ RespOf(k).CommD = <<calls[w].resp[1].CommD>>
              /\ phase = "complete" => Len(RespOf(k).SectorCommitMessage) = 1

\* the deal went through its four phases and each sent its response
C18_Witness ==
    /\ \A phase \in {"accept", "staged", "sealing", "complete"} : Sends(phase) # {}
    /\ task.phase = "complete"
    /\ PhaseDone

\* Accept asked ChainHead for the height and has the proposal's vouchers
StartChecked ==
    /\ task.phase = "accept"
    /\ Len(Vouchers) > 0
    /\ \E k \in CallsOf("ChainHead", "accept") : calls[k].ok

\* the deal's notional start height, TimeLock of the first voucher less one
\* increment, as a number that may lie below zero
NotionalStart == Vouchers[1].TimeLock - (deal.Proposal.Duration \div Len(Vouchers))

\* C17: consumeVouchers rejects a deal as starting too far in the future
\* exactly when its notional start height (first TimeLock less the increment)
\* lies above the chain height plus the skew limit; a deal whose first
\* TimeLock is smaller than the increment (a start in the past) passes.
C17_TooFarExactlyWhenStartAboveSkew ==
    StartChecked =>
        \A h \in Heights :
            (task.err = "ErrStartTooFar") <=> (NotionalStart > h + DealVoucherSkewLimit)

\* consumeVouchers has computed the schedule it validates against
ScheduleComputed == task.phase = "accept" /\ task.vspec # <<>>

\* the vouchers of the proposal evenly divide its duration
EvenlyDivided == Len(Vouchers) > 0 /\ deal.Proposal.Duration % Len(Vouchers) = 0

\* C19: for a proposal whose N vouchers evenly divide the duration, the
\* schedule consumeVouchers validates against has a required cumulative
\* amount for every voucher index 0..N-1, the amount is non-decreasing in
\* the index, and the amount required of the last voucher is the total price.
C19_ScheduleCoversEveryVoucher ==
    (ScheduleComputed /\ EvenlyDivided) =>
        /\ Len(task.vspec) >= Len(Vouchers)
        /\ \A i, j \in 1..Len(Vouchers) :
              i <= j => task.vspec[i].Amount <= task.vspec[j].Amount
        /\ task.vspec[Len(Vouchers)].Amount = deal.Proposal.TotalPrice

\* the calls Accept made, and the place of each in Accept's order of steps
AcceptCalls == {k \in DOMAIN calls : calls[k].phase = "accept"}

StepOf(op) ==
    CASE op = "StateWaitMsg"       -> 1
      [] op = "ChainHead"          -> 2
      [] op = "checkVoucher"       -> 2
      [] op = "PaychVoucherAdd"    -> 2
      [] op = "sendSignedResponse" -> 3
      [] op = "FetchGraph"         -> 4

\* every voucher of the proposal was redeemed before call k
AllRedeemedBefore(k) ==
    \A j \in 1..Len(Vouchers) :
        \E r \in Redemptions : r < k /\ calls[r].i = j /\ calls[r].ok

\* C20: Accept takes its steps in a fixed order: the wait for the channel
\* message (only when the proposal references one), voucher validation and
\* redemption, the 'accepted' response, the fetch; a step starts only after
\* the one before it succeeded: a failed wait means no voucher is checked or
\* redeemed, a failed redemption means no response and no fetch.
C20_AcceptStepsInOrder ==
    /\ \A k, l \in AcceptCalls :
          k < l => (StepOf(calls[k].op) <= StepOf(calls[l].op) /\ calls[k].ok)
    /\ CallsOf("StateWaitMsg", "accept") # {} <=>
          (deal.Proposal.ChannelMessage # <<>> /\ AcceptCalls # {})
    /\ Cardinality(CallsOf("StateWaitMsg", "accept")) <= 1
    /\ (\E w \in CallsOf("StateWaitMsg", "accept") : ~calls[w].ok) =>
          /\ CallsOf("ChainHead", "accept") = {}
          /\ CallsOf("checkVoucher", "accept") = {}
          /\ AcceptEffects = {}
    /\ (\E r \in Redemptions : ~calls[r].ok) =>
          /\ Sends("accept") = {}
          /\ CallsOf("FetchGraph", "accept") = {}
    /\ \A k \in Sends("accept") : AllRedeemedBefore(k)
    /\ \A f \in CallsOf("FetchGraph", "accept") :
          \E k \in Sends("accept") : k < f /\ calls[k].ok

\* Accept of a proposal that names a channel message and carries two
\* vouchers went through all four steps
C20_Witness ==
    /\ deal.Proposal.ChannelMessage # <<>>
    /\ Len(Vouchers) = 2
    /\ \E w \in CallsOf("StateWaitMsg", "accept") : calls[w].ok
    /\ Cardinality({r \in Redemptions : calls[r].ok}) = 2
    /\ \E f \in CallsOf("FetchGraph", "accept") : calls[f].ok

----------------------------------------------------------------------------
(* Claims about the redemption loops and the empty voucher list, under Spec *)

\* how many of the calls in ks were made up to call k
CountUpTo(ks, k) == Cardinality({c \in ks : c <= k})

\* C21: consumeVouchers requests redemptions one at a time in increasing
\* voucher index order; when the redemption of voucher i fails it returns an
\* error, requests no redemption for any index above i and makes no attempt
\* to undo the redemptions made for the indices below i.
C21_RedemptionsInOrderAbortOnFailure ==
    /\ \A r \in Redemptions : calls[r].i = CountUpTo(Redemptions, r)
    /\ \A r \in Redemptions :
          ~calls[r].ok =>
             /\ \A j \in 1..(calls[r].i - 1) :
                   \E q \in Redemptions : q < r /\ calls[q].i = j /\ calls[q].ok
             /\ \A q \in Redemptions : calls[q].i <= calls[r].i
             /\ Len(calls) = r
             /\ task.phase = "accept"
             /\ task.pc \in {"returned", "sent", "dropped"}
             /\ task.err = "ErrVoucherAdd"

\* the first voucher was redeemed, the redemption of the second failed and
\* consumeVouchers returned the error
C21_Witness ==
    /\ Cardinality(Redemptions) = 2
    /\ \E q, r \in Redemptions :
          /\ calls[q].i = 1 /\ calls[q].ok
          /\ calls[r].i = 2 /\ ~calls[r].ok
    /\ task.pc = "returned"
    /\ task.err = "ErrVoucherAdd"

\* the vouchers of the deal whose Extra method is PaymentVerifyInclusion
InclusionVouchers ==
    {j \in 1..Len(Vouchers) :
        Vouchers[j].Extra # NoExtra /\ Vouchers[j].Extra[1].Method = PaymentVerifyInclusion}

\* the proof Sealing serializes: the deal's SectorID and the proof elements of
\* the deal's piece in the status WaitSeal call w returned
SerializedProof(w) ==
    DumpInclusionProof(deal.SectorID,
                       getInclusionProof(PieceKey(deal.Ref), calls[w].resp[1])[1].ProofElements)

\* C22: on a Sealed status that holds the deal's piece key, Sealing calls
\* PaychVoucherAdd once for every voucher whose Extra method is
\* PaymentVerifyInclusion, in index order, each time with the serialized
\* inclusion proof (the deal's SectorID and the piece's proof elements) as
\* extra data and a minimum delta of 0; the first failing call ends the
\* phase with an error, no later voucher is touched and no 'sealing'
\* response is sent.
C22_ProofStoredForEveryInclusionVoucher ==
    /\ \A s \in ProofStores :
          /\ calls[s].i \in InclusionVouchers
          /\ calls[s].amt = 0
          /\ \E w \in WaitSeals : w < s /\ SealedWithKey(w) /\ calls[s].proof = SerializedProof(w)
          /\ \A q \in ProofStores : q < s => (calls[q].i < calls[s].i /\ calls[q].ok)
          /\ \A j \in InclusionVouchers :
                j < calls[s].i => \E q \in ProofStores : q < s /\ calls[q].i = j
    /\ \A k \in Sends("sealing") :
          \A j \in InclusionVouchers :
              \E q \in ProofStores : q < k /\ calls[q].i = j /\ calls[q].ok
    /\ \A s \in ProofStores :
          ~calls[s].ok =>
             /\ Len(calls) = s
             /\ Sends("sealing") = {}
             /\ task.phase = "sealing"
             /\ task.pc \in {"returned", "sent", "dropped"}
             /\ task.err = "ErrStoreProof"

\* the proof was stored for the first voucher, the call for the second
\* failed, and Sealing returned the error without a response
C22_Witness ==
    /\ Cardinality(InclusionVouchers) = 2
    /\ \E q, s \in ProofStores :
          /\ calls[q].i = 1 /\ calls[q].ok
          /\ calls[s].i = 2 /\ ~calls[s].ok
    /\ Sends("sealing") = {}
    /\ task.pc = "returned"
    /\ task.err = "ErrStoreProof"

\* C24: a proposal with an empty voucher list makes consumeVouchers return
\* an error before the increment is computed (no division by zero) and
\* before any voucher check or redemption, so Accept on such a deal never
\* redeems, never sends a response and never starts a fetch.
C24_EmptyVoucherListRefused ==
    Len(Vouchers) = 0 =>
        /\ task.pc # "panicked"
        /\ task.increment = 0 /\ task.vspec = <<>>
        /\ CallsOf("checkVoucher", "accept") = {}
        /\ AcceptEffects = {}
        /\ task.phase \in {"none", "accept"}
        /\ (\E k \in CallsOf("ChainHead", "accept") : calls[k].ok) =>
              /\ task.pc \in {"returned", "sent", "dropped"}
              /\ task.err = "ErrNoVouchers"
              /\ task.mut = NoMut
        /\ (task.phase = "accept" /\ PhaseDone) => task.err # NoErr

\* consumeVouchers got the chain head for a proposal without vouchers and
\* returned its error
C24_Witness ==
    /\ Len(Vouchers) = 0
    /\ deal.Proposal.SerializationMode = SerializationUnixFs
    /\ \E k \in CallsOf("ChainHead", "accept") : calls[k].ok
    /\ task.pc = "returned"
    /\ task.err = "ErrNoVouchers"

----------------------------------------------------------------------------
(* Claims about termination, under SpecHandleFair *)

\* task t has been started by handle and has not come to its end
Running(t) == tasks[t].pc \in {"callback", "returned"}

\* task t has finished its callback and waits in the select
BlockedOnDelivery(t) == tasks[t].pc = "returned" /\ ~Skips(tasks[t].err, tasks[t].next)

\* C23: given that the phase callback returns and that eventually the owner
\* receives from the update channel or the stop signal is raised, every task
\* started by handle eventually terminates; once stop has been raised, a
\* task that has finished its callback never stays blocked on the delivery.
C23_EveryTaskTerminates ==
    \A t \in TaskIds :
        /\ Running(t) ~> Finished(t)
        /\ (stop /\ BlockedOnDelivery(t)) ~> tasks[t].pc \in {"sent", "dropped"}

\* after the owner loop had exited, a task that waited in its select was
\* released by the stop case, and every task has come to its end
C23_Witness ==
    /\ stop
    /\ owner = "exited"
    /\ \A t \in TaskIds : Finished(t)
    /\ \E t \in TaskIds : tasks[t].pc = "dropped" /\ Received(t) = {}

====
